---- MODULE Spec2Model ----
(***************************************************************************)
(* Verification model of TV-RI/ThermalDAQ.                                 *)
(*                                                                         *)
(* Six parts of the program are modelled , each explored from its own      *)
(* initial states (variable `scenario`):                                   *)
(*   "bus"  - devices/TCM.py: one TCM bus instance, its lock, the serial   *)
(*            link, the acquisition worker calling read_data and writer    *)
(*            threads calling write_data / write_cmds / write_cmd;         *)
(*   "coll" - utils/data.py: the per-device queues, the acquisition        *)
(*            workers, DataCollector.collect_data and snapshot readers;    *)
(*   "deq"  - utils/data.py: dequeue_data applied to one queue;            *)
(*   "drv"  - devices/FluxDAQ.py and devices/SMTC.py: read_data applied to *)
(*            one device response;                                         *)
(*   "init" - devices/TCM.py: TCM.__init__ applied to one configuration;   *)
(*   "run"  - main.py: the collection loop of run() with its workers, from *)
(*            the start of the worker threads to the end of the process.   *)
(*                                                                         *)
(* Text on the serial link is a sequence of tokens: every token is one     *)
(* character ("=", "@", "?", "\r", ",", a digit) except an attribute name, *)
(* the prefix "CMD:" and a numeric field, which are kept whole.  Python's  *)
(* split, slicing, startswith, int and float are modelled on such          *)
(* sequences.                                                              *)
(***************************************************************************)
EXTENDS Integers, Sequences, FiniteSets, TLC

VARIABLES
    scenario,        \* which part of the program this behaviour explores
    \* ---- devices/TCM.py ------------------------------------------------
    write_mode,      \* TCM.write_mode
    tmp_write_keys,  \* TCM.tmp_write_keys (tmp_write_attrs/devices follow it)
    lock,            \* TCM.lock: "free" or the thread holding it
    pc,              \* per thread: position in read_data / write_*
    call,            \* per thread: the call in progress and its arguments
    idx,             \* per thread: number of request lines sent in this cycle
    loopvar,         \* per thread: the loop variables attr, addr of write_cmds
    ncalls,          \* calls started so far on this instance
    ser_out,         \* request lines written to the link, not yet answered
    cycle,           \* what the device has done with the requests of the
                     \* cycle in progress: pend of them wait in ser_out (its
                     \* last entries), ans of them have been answered
    ser_in,          \* the serial input buffer (tokens)
    open,            \* threads whose cycle has sent a line and not yet read
    last             \* the call that the step just taken has finished: thread,
                     \* call, what it read from ser_in, and its outcome

busVars == <<write_mode, tmp_write_keys, lock, pc, call, idx, loopvar, ncalls,
             ser_out, cycle, ser_in, open, last>>

VARIABLES
    \* ---- utils/data.py, main.py ----------------------------------------
    headers,            \* DataCollector.headers: one list of names per device
    save,               \* DataCollector.save
    now,                \* time.time(), in ticks
    queues,             \* per device: the queue.Queue of [timestamp] + data
    wpc,                \* per device worker: position in read_device_data
    wts,                \* per device worker: the earliest time at which its
                        \* turn in progress can have taken its `timestamp`
    nsamples,           \* samples enqueued so far
    latest_queue_data,  \* DataCollector.latest_queue_data
    latest_array_data,  \* DataCollector.latest_array_data
    latest_dict_data,   \* DataCollector.latest_dict_data
    cpc,                \* collector thread: position in collect_data
    ci,                 \* collector thread: loop index i of collect_data
    cdata,              \* collector thread: local `data` of collect_data
    timestamp,          \* the boundary passed to collect_data
    drained,            \* what the step just taken dequeued: device, entries,
                        \* boundary, and the value dequeue_data returned
    produced,           \* devices whose queue gave data in the window in
                        \* progress
    rows,               \* latest_array_data and latest_dict_data as they
                        \* stood at the end of each completed window, and
                        \* initially
    sink,               \* the csv file: the rows written to it (file), how
                        \* many of them are flushed, and for the last data
                        \* row its number, content and boundary
    snap                \* the value the step just taken returned to a reader

collVars == <<headers, save, now, queues, wpc, wts, nsamples, latest_queue_data,
              latest_array_data, latest_dict_data, cpc, ci, cdata, timestamp,
              drained, produced, rows, sink, snap>>

VARIABLES
    \* ---- devices/FluxDAQ.py, devices/SMTC.py ----------------------------
    dev,                \* the driver instance: its class and its `sensors`
    dlast               \* the read_data call on the instance: what the
                        \* device answers, and the outcome once it is made

drvVars == <<dev, dlast>>

VARIABLES
    \* ---- main.py ---------------------------------------------------------
    rpc,        \* position of the main thread in run() / __main__
    alive,      \* thread.is_alive() of each acquisition worker
    queued,     \* worker i has put a sample that collect_data has not taken
    merged,     \* latest_dict_data holds values (not None) for device i
    writer,     \* the csv file of the collector: "none", "open" or "closed"
    ended       \* why the loop was left

runVars == <<rpc, alive, queued, merged, writer, ended>>

vars == <<scenario, busVars, collVars, drvVars, runVars>>

-----------------------------------------------------------------------------
(* Bounds of the model *)

MaxCalls == 2        \* calls started on the TCM instance, all threads together
MaxPending == 1      \* request lines the device may leave unanswered at once
MaxTime == 5         \* last tick of the clock
MaxSamples == 3      \* samples the workers enqueue, all devices together
MaxLen == 3          \* entries of the queue handed to dequeue_data
MaxSensorId == 2     \* largest sensor id of a FluxDAQ / TCHAT configuration
MaxKeys == 2         \* read keys, and write keys, of a TCM configuration

-----------------------------------------------------------------------------
(* Python strings and lists on token sequences *)

CR == "\r"

\* str.split(sep): the segments between occurrences of sep (at least one)
RECURSIVE Split(_, _)
Split(s, sep) ==
    IF \E i \in 1..Len(s) : s[i] = sep
    THEN LET i == CHOOSE k \in 1..Len(s) :
                      s[k] = sep /\ \A j \in 1..(k-1) : s[j] # sep
         IN  <<SubSeq(s, 1, i-1)>> \o Split(SubSeq(s, i+1, Len(s)), sep)
    ELSE <<s>>

\* x[:-k] for k > 0
DropLast(s, k) == SubSeq(s, 1, Len(s) - k)

\* readout.split('\r')[:-1]
Lines(s) == DropLast(Split(s, CR), 1)

\* numeric fields that int() / float() accept, with their values
NumVal == ("0" :> 0) @@ ("1" :> 1) @@ ("2" :> 2) @@ ("3" :> 3) @@ ("4" :> 4)
          @@ ("5" :> 5) @@ ("6" :> 6) @@ ("7" :> 7) @@ ("8" :> 8) @@ ("9" :> 9)
          @@ ("15" :> 15) @@ ("20" :> 20) @@ ("22" :> 22)

\* float(s) succeeds exactly on one numeric field
CanFloat(s) == Len(s) = 1 /\ s[1] \in DOMAIN NumVal
Float(s) == NumVal[s[1]]

\* len(f'@{addr}'): "@" and the digits of the address
AddrSuffixLen(addr) == 1 + (IF addr < 10 THEN 1 ELSE 2)

-----------------------------------------------------------------------------
(* devices/TCM.py: configuration of the modelled instance *)

K_TEMP3 == <<"TEMP", "@", "3">>
K_ADJ4  == <<"ADJ", "@", "4">>

cfg_read_keys  == <<K_TEMP3>>
cfg_write_keys == <<K_TEMP3, K_ADJ4>>

read_keys == cfg_read_keys
write_keys == IF write_mode THEN cfg_write_keys ELSE <<>>

\* the header: read keys then write keys, a key already present is skipped
RECURSIVE Dedup(_, _)
Dedup(ks, acc) ==
    IF ks = <<>> THEN acc
    ELSE IF \E i \in 1..Len(acc) : acc[i] = Head(ks)
         THEN Dedup(Tail(ks), acc)
         ELSE Dedup(Tail(ks), Append(acc, Head(ks)))

header == Dedup(read_keys \o write_keys, <<>>)
header_size == Len(header)

headermap(k) == CHOOSE i \in 1..Len(header) : header[i] = k

attrs_lst == [i \in 1..Len(header) |-> Split(header[i], "@")[1][1]]
devices_lst == [i \in 1..Len(header) |-> NumVal[Split(header[i], "@")[2][1]]]

write_attributes == [i \in 1..Len(write_keys) |-> attrs_lst[headermap(write_keys[i])]]
write_devices == [i \in 1..Len(write_keys) |-> devices_lst[headermap(write_keys[i])]]

\* str(address) in an f-string
AddrTok(addr) == CHOOSE t \in DOMAIN NumVal : NumVal[t] = addr


-----------------------------------------------------------------------------
(* devices/TCM.py: the wire protocol *)

\* f"{attr}?@{address}\r"
ReadRequest(attr, addr) == <<attr, "?", "@", AddrTok(addr), CR>>

\* f"{attr}={val}@{address}\r"
WriteRequest(attr, addr, val) == <<attr, "=", val, "@", AddrTok(addr), CR>>

IsReadRequest(req) == \E i \in 1..Len(req) : req[i] = "?"

\* what the device may put on the link for one request: a value line
\* ATTR=VALUE@ADDR for a read it accepts, an error-code line CMD:ATTR=CODE@ADDR
\* for a write and for a read it refuses
ValueLine(attr, val, addrTok) == <<attr, "=", val, "@", addrTok, CR>>
CodeLine(attr, code, addrTok) == <<"CMD:", attr, "=", code, "@", addrTok, CR>>

ReadValues == {"20", "22"}
\* a value field damaged on the link: float() rejects it
GarbledValues == {"2#"}
ReadCodes == {"4"}
WriteCodes == {"1", "8", "4"}

Responses(req) ==
    IF IsReadRequest(req)
    THEN {ValueLine(req[1], v, req[4]) : v \in ReadValues \cup GarbledValues}
         \cup {CodeLine(req[1], c, req[4]) : c \in ReadCodes}
    ELSE {CodeLine(req[1], c, req[5]) : c \in WriteCodes}

\* extract_error_code: the digit after '=' of a line starting with "CMD:",
\* None for any other line
extract_error_code(output_str) ==
    IF Len(output_str) >= 1 /\ output_str[1] = "CMD:"
    THEN LET parts == Split(output_str, "=")
         IN  IF Len(parts) < 2 \/ Len(parts[2]) < 1
             THEN [kind |-> "raise", exc |-> "IndexError"]
             ELSE IF parts[2][1] \in DOMAIN NumVal /\ NumVal[parts[2][1]] < 10
                  THEN [kind |-> "int", v |-> NumVal[parts[2][1]]]
                  ELSE [kind |-> "raise", exc |-> "ValueError"]
    ELSE [kind |-> "None"]

\* error_code != n
CodeDiffers(code, n) == ~(code.kind = "int" /\ code.v = n)

\* float(ele.split('=')[1][:-len(f'@{self.devices_lst[i]}')])
ParseField(ele, addr) ==
    LET parts == Split(ele, "=")
    IN  IF Len(parts) < 2
        THEN [kind |-> "raise", exc |-> "IndexError"]
        ELSE LET field == DropLast(parts[2], AddrSuffixLen(addr))
             IN  IF CanFloat(field)
                 THEN [kind |-> "float", v |-> Float(field)]
                 ELSE [kind |-> "raise", exc |-> "ValueError"]

\* the body of read_data with the line count left unchecked
ReadDataResult_nocheck(output_str) ==
    LET lines == Lines(output_str)
        parsed == [i \in 1..Len(lines) |->
                      IF i > Len(devices_lst)
                      THEN [kind |-> "raise", exc |-> "IndexError"]
                      ELSE ParseField(lines[i], devices_lst[i])]
    IN  IF \E i \in 1..Len(lines) : parsed[i].kind = "raise"
        THEN LET i == CHOOSE k \in 1..Len(lines) :
                         /\ parsed[k].kind = "raise"
                         /\ \A j \in 1..(k-1) : parsed[j].kind # "raise"
             IN  parsed[i]
        ELSE [kind |-> "list", v |-> [i \in 1..Len(lines) |-> parsed[i].v]]

\* the body of read_data after the requests: None on a line-count mismatch,
\* else the list of parsed fields, or the first exception raised by parsing
ReadDataResult(output_str) ==
    LET lines == Lines(output_str)
    IN  IF Len(lines) # header_size
        THEN [kind |-> "None"]
        ELSE LET parsed == [i \in 1..Len(lines) |-> ParseField(lines[i], devices_lst[i])]
             IN  IF \E i \in 1..Len(lines) : parsed[i].kind = "raise"
                 THEN LET i == CHOOSE k \in 1..Len(lines) :
                                  /\ parsed[k].kind = "raise"
                                  /\ \A j \in 1..(k-1) : parsed[j].kind # "raise"
                      IN  parsed[i]
                 ELSE [kind |-> "list", v |-> [i \in 1..Len(lines) |-> parsed[i].v]]

\* the check of one response line with the two tests joined by `or`
WriteCmdsLineFails_or(error_code) ==
    CodeDiffers(error_code, 1) \/ CodeDiffers(error_code, 8)

\* the check of one response line in write_cmds
WriteCmdsLineFails(error_code) ==
    CodeDiffers(error_code, 1) /\ CodeDiffers(error_code, 8)

\* the check of the readout in write_cmd
WriteCmdFails(err_code) ==
    CodeDiffers(err_code, 1) \/ CodeDiffers(err_code, 8)

\* the loop of write_cmds over the response lines; the AttributeError names
\* attr and addr, the loop variables as the request loop left them (lv)
RECURSIVE WriteCmdsCheck(_, _, _)
WriteCmdsCheck(lines, k, lv) ==
    IF k > Len(lines)
    THEN [kind |-> "ok"]
    ELSE LET error_code == extract_error_code(lines[k])
         IN  IF error_code.kind = "raise"
             THEN error_code
             ELSE IF WriteCmdsLineFails(error_code)
                  THEN [kind |-> "raise", exc |-> "AttributeError",
                        code |-> error_code,
                        slot |-> [attr |-> lv.attr, addr |-> lv.addr]]
                  ELSE WriteCmdsCheck(lines, k + 1, lv)

WriteCmdsResult(readout_str, lv) == WriteCmdsCheck(Lines(readout_str), 1, lv)

WriteCmdResult(readout_str, attr, address) ==
    LET err_code == extract_error_code(readout_str)
    IN  IF err_code.kind = "raise"
        THEN err_code
        ELSE IF WriteCmdFails(err_code)
             THEN [kind |-> "raise", exc |-> "AttributeError", code |-> err_code,
                   slot |-> [attr |-> attr, addr |-> address]]
             ELSE [kind |-> "ok"]

-----------------------------------------------------------------------------
(* utils/data.py: values, queues and the mean *)

\* a float is a fraction n/d in lowest terms, or nan; None is a value of its own
NoneV == [k |-> "None"]
NaN == [k |-> "nan"]

RECURSIVE GCD(_, _)
GCD(a, b) == IF b = 0 THEN a ELSE GCD(b, a % b)

Frac(n, d) == LET g == GCD(n, d) IN [k |-> "f", n |-> n \div g, d |-> d \div g]
Num(n) == Frac(n, 1)

\* the sum of two fractions
FracAdd(x, y) == Frac(x.n * y.d + y.n * x.d, x.d * y.d)

\* column j of the drained samples, nan entries left out
RECURSIVE Column(_, _)
Column(data, j) ==
    IF data = <<>> THEN <<>>
    ELSE (IF Head(data)[j] = NaN THEN <<>> ELSE <<Head(data)[j]>>)
         \o Column(Tail(data), j)

RECURSIVE FracSum(_)
FracSum(xs) == IF xs = <<>> THEN Num(0) ELSE FracAdd(Head(xs), FracSum(Tail(xs)))

\* the mean of a column with the same samples counted or not
nanmean_col_all(col, n) ==
    IF col = <<>> THEN NaN
    ELSE LET total == FracSum(col)
         IN  Frac(total.n, total.d * n)

\* the mean of the non-nan entries of a column of n samples, nan when
\* there is none
nanmean_col(col, n) ==
    IF col = <<>> THEN NaN
    ELSE LET total == FracSum(col)
         IN  Frac(total.n, total.d * Len(col))

\* np.nanmean(data, axis=0)
nanmean(data) ==
    [j \in 1..Len(data[1]) |-> nanmean_col(Column(data, j), Len(data))]

\* the loop of dequeue_data with the head compared by <=
RECURSIVE TakeCount_le(_, _)
TakeCount_le(q, t) ==
    IF q = <<>> THEN 0
    ELSE IF q[1][1] <= t THEN 1 + TakeCount_le(Tail(q), t) ELSE 0

\* the loop of dequeue_data: how many entries leave the queue
RECURSIVE TakeCount(_, _)
TakeCount(q, t) ==
    IF q = <<>> THEN 0
    ELSE IF q[1][1] < t THEN 1 + TakeCount(Tail(q), t) ELSE 0

\* a dequeue that reads the last entry it averages without removing it
dequeue_data_peek(q, t) ==
    LET k == TakeCount(q, t)
        data == [e \in 1..k |-> Tail(q[e])]
    IN  [taken |-> SubSeq(q, 1, k),
         rest |-> SubSeq(q, (IF k = 0 THEN 1 ELSE k), Len(q)),
         none |-> (k = 0),
         v |-> IF k = 0 THEN <<>> ELSE nanmean(data)]

\* dequeue_data(queue, timestamp): the entries taken, the queue left, and
\* the value returned (None, or the mean of the taken entries' data)
dequeue_data(q, t) ==
    LET k == TakeCount(q, t)
        data == [e \in 1..k |-> Tail(q[e])]
    IN  [taken |-> SubSeq(q, 1, k),
         rest |-> SubSeq(q, k + 1, Len(q)),
         none |-> (k = 0),
         v |-> IF k = 0 THEN <<>> ELSE nanmean(data)]

\* a put that adds the entry at the head of the queue
enqueue_data_front(q, data, ts) ==
    IF ts # 0 THEN <<(<<ts>> \o data)>> \o q ELSE <<(<<now>> \o data)>> \o q

\* enqueue_data(queue, data, timestamp): a false timestamp is replaced by
\* the clock
enqueue_data(q, data, ts) ==
    IF ts # 0 THEN Append(q, <<ts>> \o data) ELSE Append(q, <<now>> \o data)

-----------------------------------------------------------------------------
(* utils/data.py: DataCollector *)

Min(a, b) == IF a < b THEN a ELSE b

\* lst[start:start] = data: the data put in without replacing anything
SliceAssign_insert(lst, start, end, data) ==
    LET lo == Min(start, Len(lst))
    IN  SubSeq(lst, 1, lo) \o data \o SubSeq(lst, lo + 1, Len(lst))

\* lst[start:end] = data  (start, end counted from 0)
SliceAssign(lst, start, end, data) ==
    LET lo == Min(start, Len(lst))
        hi == IF Min(end, Len(lst)) < lo THEN lo ELSE Min(end, Len(lst))
    IN  SubSeq(lst, 1, lo) \o data \o SubSeq(lst, hi + 1, Len(lst))

RECURSIVE Flatten(_)
Flatten(hs) == IF hs = <<>> THEN <<>> ELSE Head(hs) \o Flatten(Tail(hs))

\* header_row: the headers of all devices, extended in order
header_row == Flatten(headers)

\* array_start_idx = [0] + [len(header) for header in headers[:-1]]
array_start_idx ==
    [i \in 1..Len(headers) |-> IF i = 1 THEN 0 ELSE Len(headers[i - 1])]

NoData == [none |-> TRUE, v |-> <<>>]
NoSnap == [k |-> "none"]
NoDrained == [i |-> 0, taken |-> <<>>, t |-> 0, ret |-> NoData]

\* an update that forgets the value of a device that already had one
update_queue_data_forget(lqd, i, data) ==
    [lqd EXCEPT ![i] = IF @.none THEN [none |-> FALSE, v |-> data] ELSE NoData]

\* update_queue_data(queue_idx, data)
update_queue_data(lqd, i, data) ==
    [lqd EXCEPT ![i] = [none |-> FALSE, v |-> data]]

\* update_array_data(queue_idx, data)
update_array_data(arr, i, data) ==
    LET start_idx == array_start_idx[i]
        end_idx == start_idx + Len(data)
    IN  SliceAssign(arr, start_idx, end_idx, data)

\* update_dict_data(queue_idx, data): dict.update(dict(zip(headers[i], data)))
update_dict_data(d, i, data) ==
    [name \in DOMAIN d |->
        IF \E j \in 1..Min(Len(headers[i]), Len(data)) : headers[i][j] = name
        THEN data[CHOOSE j \in 1..Min(Len(headers[i]), Len(data)) :
                      /\ headers[i][j] = name
                      /\ \A m \in (j+1)..Min(Len(headers[i]), Len(data)) :
                             headers[i][m] # name]
        ELSE d[name]]

\* device configurations: the channel names of up to three devices
ChannelNames == << <<"a1", "a2">>, <<"b1", "b2">>, <<"c1", "c2">> >>
HeaderShapes == { <<2, 1>>, <<1, 2, 1>> }
HeadersOf(shape) == [i \in 1..Len(shape) |-> SubSeq(ChannelNames[i], 1, shape[i])]

Devices == 1..Len(headers)

\* config['writing_time'] and the devices' sampling_time, in ticks
writing_time == 2
sampling_time == 1

\* what device i reads at time t: one float per channel of its header
Reading(i, t) == [j \in 1..Len(headers[i]) |-> Num(100 * i + 10 * j + t)]

CollOff ==
    /\ headers = <<>> /\ save = FALSE /\ now = 0
    /\ queues = <<>> /\ wpc = <<>> /\ wts = <<>> /\ nsamples = 0
    /\ latest_queue_data = <<>> /\ latest_array_data = <<>>
    /\ latest_dict_data = <<>>
    /\ cpc = "off" /\ ci = 0 /\ cdata = <<>> /\ timestamp = 0
    /\ drained = [i |-> 0, taken |-> <<>>, t |-> 0, ret |-> [none |-> TRUE, v |-> <<>>]]
    /\ produced = {} /\ rows = {} /\ sink = <<>> /\ snap = NoSnap

BusOff ==
    /\ write_mode = FALSE /\ tmp_write_keys = <<>> /\ lock = "free"
    /\ pc = <<>> /\ call = <<>> /\ idx = <<>> /\ loopvar = <<>>
    /\ ncalls = 0 /\ ser_out = <<>> /\ ser_in = <<>> /\ open = {}
    /\ cycle = [pend |-> 0, ans |-> 0]
    /\ last = [t |-> "", call |-> [op |-> "none"], readout |-> <<>>,
               ret |-> [kind |-> "none"]]

NoRead == [op |-> "none", out |-> <<>>, ret |-> [kind |-> "none"]]

DrvOff == dev = [class |-> "none"] /\ dlast = NoRead

RunOff ==
    /\ rpc = "off" /\ alive = <<>> /\ queued = <<>> /\ merged = <<>>
    /\ writer = "none" /\ ended = "no"

\* initiate_writer: the file is opened and the column header row written
\* (not flushed); without `save` there is no file
initiate_writer ==
    [n |-> 0, row |-> <<>>, t |-> 0,
     file |-> IF save THEN <<[kind |-> "header", cols |-> <<"time">> \o header_row]>>
              ELSE <<>>,
     flushed |-> 0]

\* save_data whose row stays in the buffer of the file object
save_data_unflushed(snk, data, t) ==
    [n |-> snk.n + 1, row |-> data, t |-> t,
     file |-> Append(snk.file, [kind |-> "data", t |-> t, data |-> data]),
     flushed |-> snk.flushed]

\* save_data(data, timestamp) past its checks: writerow([time] + data) and
\* writingfile.flush()
save_data(snk, data, t) ==
    [n |-> snk.n + 1, row |-> data, t |-> t,
     file |-> Append(snk.file, [kind |-> "data", t |-> t, data |-> data]),
     flushed |-> Len(snk.file) + 1]

\* DataCollector.__init__ and the start of run(): the threads are started
\* at time 1 and the first boundary is one writing_time later
InitColl ==
    /\ scenario = "coll" /\ BusOff /\ DrvOff /\ RunOff
    /\ \E shape \in HeaderShapes : headers = HeadersOf(shape)
    /\ save \in BOOLEAN
    /\ now = 1
    /\ queues = [i \in Devices |-> <<>>]
    /\ wpc = [i \in Devices |-> "read"]
    /\ wts = [i \in Devices |-> 1]
    /\ nsamples = 0
    /\ latest_queue_data = [i \in Devices |-> NoData]
    /\ latest_array_data = [p \in 1..Len(header_row) |-> NoneV]
    /\ latest_dict_data = [name \in {header_row[p] : p \in 1..Len(header_row)} |-> NoneV]
    /\ cpc = "wait" /\ ci = 0 /\ cdata = <<>>
    /\ timestamp = 1 + writing_time
    /\ drained = NoDrained
    /\ produced = {}
    /\ rows = {[a |-> [p \in 1..Len(header_row) |-> NoneV],
                d |-> [name \in {header_row[p] : p \in 1..Len(header_row)} |-> NoneV]]}
    /\ sink = initiate_writer
    /\ snap = NoSnap

\* the clock advances
Tick ==
    /\ scenario = "coll" /\ UNCHANGED <<busVars, drvVars, runVars>>
    /\ now < MaxTime
    /\ now' = now + 1
    /\ snap' = NoSnap
    /\ UNCHANGED <<scenario, headers, save, nsamples, queues, wpc, wts, latest_queue_data,
                   latest_array_data, latest_dict_data, cpc, ci, cdata, timestamp,
                   produced, rows, sink>>
    /\ drained' = NoDrained

\* read_device_data, the turns of the loop up to and including one with data:
\* after any number of turns in which device.read_data() returned None, a
\* turn took its timestamp ts (not before the last turn with data ended),
\* read_data() returned a sample when its pacing sleep was over, one
\* sampling_time after ts, and the sample is enqueued with ts.  How this
\* step is ordered among the collector's steps of the same tick is free.
WorkerEnqueue(i) ==
    LET ts == now - sampling_time
    IN  /\ scenario = "coll" /\ UNCHANGED <<busVars, drvVars, runVars>>
        /\ wpc[i] = "read"
        /\ wts[i] <= ts
        /\ nsamples < MaxSamples
        /\ nsamples' = nsamples + 1
        /\ queues' = [queues EXCEPT ![i] = enqueue_data(@, Reading(i, ts), ts)]
        /\ wts' = [wts EXCEPT ![i] = now]
        /\ snap' = NoSnap /\ drained' = NoDrained
        /\ UNCHANGED <<scenario, headers, save, now, wpc, latest_queue_data,
                       latest_array_data, latest_dict_data, cpc, ci, cdata,
                       timestamp, produced, rows, sink>>

\* collect_data: wait_until_time(timestamp) returns
CollectWait ==
    /\ scenario = "coll" /\ UNCHANGED <<busVars, drvVars, runVars>>
    /\ cpc = "wait"
    /\ ~(now < timestamp)
    /\ cpc' = "drain" /\ ci' = 1
    /\ snap' = NoSnap /\ drained' = NoDrained
    /\ UNCHANGED <<scenario, headers, save, nsamples, now, queues, wpc, wts, latest_queue_data,
                   latest_array_data, latest_dict_data, cdata, timestamp, produced, rows, sink>>

\* collect_data, one device: dequeue_data, and on data update_queue_data and
\* update_array_data
CollectDrain ==
    /\ scenario = "coll" /\ UNCHANGED <<busVars, drvVars, runVars>>
    /\ cpc = "drain" /\ ci \in Devices
    /\ LET r == dequeue_data(queues[ci], timestamp)
       IN  /\ queues' = [queues EXCEPT ![ci] = r.rest]
           /\ drained' = [i |-> ci, taken |-> r.taken, t |-> timestamp,
                          ret |-> [none |-> r.none, v |-> r.v]]
           /\ IF r.none
              THEN /\ ci' = ci + 1
                   /\ UNCHANGED <<cpc, cdata, latest_queue_data, latest_array_data,
                                  produced>>
              ELSE /\ latest_queue_data' = update_queue_data(latest_queue_data, ci, r.v)
                   /\ latest_array_data' = update_array_data(latest_array_data, ci, r.v)
                   /\ cdata' = r.v
                   /\ produced' = produced \cup {ci}
                   /\ cpc' = "dict"
                   /\ UNCHANGED ci
    /\ snap' = NoSnap
    /\ UNCHANGED <<scenario, headers, save, nsamples, now, wpc, wts, latest_dict_data,
                   timestamp, rows, sink>>

\* collect_data, one device: update_dict_data
CollectDict ==
    /\ scenario = "coll" /\ UNCHANGED <<busVars, drvVars, runVars>>
    /\ cpc = "dict"
    /\ latest_dict_data' = update_dict_data(latest_dict_data, ci, cdata)
    /\ cpc' = "drain" /\ ci' = ci + 1 /\ cdata' = <<>>
    /\ snap' = NoSnap
    /\ UNCHANGED <<scenario, headers, save, nsamples, now, queues, wpc, wts, latest_queue_data,
                   latest_array_data, timestamp, produced, rows, sink>>
    /\ drained' = NoDrained

\* collect_data after the loop: save_data(latest_array_data, timestamp) when
\* saving is on (one row written and flushed, or ValueError when the row is
\* not as long as header_row); the window is complete
CollectSave ==
    /\ scenario = "coll" /\ UNCHANGED <<busVars, drvVars, runVars>>
    /\ cpc = "drain" /\ ci = Len(headers) + 1
    /\ IF save /\ Len(latest_array_data) # Len(header_row)
       THEN \* save_data raises ValueError: collect_data ends with it
            /\ cpc' = "raised"
            /\ UNCHANGED <<sink, rows>>
       ELSE /\ sink' = IF save
                       THEN save_data(sink, latest_array_data, timestamp)
                       ELSE sink
            /\ rows' = rows \cup {[a |-> latest_array_data, d |-> latest_dict_data]}
            /\ cpc' = "done"
    /\ snap' = NoSnap
    /\ UNCHANGED <<scenario, headers, save, nsamples, now, queues, wpc, wts, latest_queue_data,
                   latest_array_data, latest_dict_data, ci, cdata, timestamp,
                   produced>>
    /\ drained' = NoDrained

\* run(): timestamp = timestamp + writing_time, and the next collect_data
NextWindow ==
    /\ scenario = "coll" /\ UNCHANGED <<busVars, drvVars, runVars>>
    /\ cpc = "done"
    /\ timestamp + writing_time <= MaxTime
    /\ timestamp' = timestamp + writing_time
    /\ cpc' = "wait" /\ ci' = 0
    /\ produced' = {}
    /\ snap' = NoSnap
    /\ UNCHANGED <<scenario, headers, save, nsamples, now, queues, wpc, wts, latest_queue_data,
                   latest_array_data, latest_dict_data, cdata, rows, sink>>
    /\ drained' = NoDrained

\* a getter that hands out the row and starts a new, empty one
GetLatestData_consume ==
    /\ scenario = "coll" /\ UNCHANGED <<busVars, drvVars, runVars>>
    /\ snap' = [k |-> "array", v |-> latest_array_data]
    /\ latest_array_data' = [c \in 1..Len(latest_array_data) |-> NoneV]
    /\ UNCHANGED <<scenario, headers, save, nsamples, now, queues, wpc, wts, latest_queue_data,
                   latest_dict_data, cpc, ci, cdata, timestamp,
                   produced, rows, sink>>
    /\ drained' = NoDrained

\* a reader thread calls get_latest_data()
GetLatestData ==
    /\ scenario = "coll" /\ UNCHANGED <<busVars, drvVars, runVars>>
    /\ snap' = [k |-> "array", v |-> latest_array_data]
    /\ UNCHANGED <<scenario, headers, save, nsamples, now, queues, wpc, wts, latest_queue_data,
                   latest_array_data, latest_dict_data, cpc, ci, cdata, timestamp,
                   produced, rows, sink>>
    /\ drained' = NoDrained

\* a reader thread calls get_latest_dict_data()
GetLatestDictData ==
    /\ scenario = "coll" /\ UNCHANGED <<busVars, drvVars, runVars>>
    /\ snap' = [k |-> "dict", v |-> latest_dict_data]
    /\ UNCHANGED <<scenario, headers, save, nsamples, now, queues, wpc, wts, latest_queue_data,
                   latest_array_data, latest_dict_data, cpc, ci, cdata, timestamp,
                   produced, rows, sink>>
    /\ drained' = NoDrained

NextColl ==
    \/ Tick
    \/ \E i \in Devices : WorkerEnqueue(i)
    \/ CollectWait
    \/ CollectDrain
    \/ CollectDict
    \/ CollectSave
    \/ NextWindow
    \/ GetLatestData
    \/ GetLatestDictData

SpecColl == InitColl /\ [][NextColl]_vars

-----------------------------------------------------------------------------
(* utils/data.py: dequeue_data applied to one queue *)

\* what a channel of a queued sample may hold
SampleValues == {Num(20), Num(22), NaN}

RECURSIVE SortedSeq(_)
SortedSeq(S) ==
    IF S = {} THEN <<>>
    ELSE LET m == CHOOSE x \in S : \A y \in S : x <= y
         IN  <<m>> \o SortedSeq(S \ {m})

\* a queue as its one worker fills it: entries [timestamp] + data, the
\* timestamps increasing from head to tail
QueueOf(S, f) ==
    LET st == SortedSeq(S)
    IN  [k \in 1..Len(st) |-> <<st[k]>> \o f[st[k]]]

\* a queue of one device with one or two channels, holding up to MaxLen
\* samples
InitDequeue ==
    /\ scenario = "deq" /\ BusOff /\ DrvOff /\ RunOff
    /\ \E w \in 1..2 : \E S \in SUBSET (1..MaxLen) :
         \E f \in [S -> [1..w -> SampleValues]] :
            /\ headers = << SubSeq(ChannelNames[1], 1, w) >>
            /\ queues = << QueueOf(S, f) >>
    /\ save = FALSE /\ now = 0
    /\ wpc = <<"off">> /\ wts = <<0>> /\ nsamples = 0
    /\ latest_queue_data = <<NoData>>
    /\ latest_array_data = [p \in 1..Len(header_row) |-> NoneV]
    /\ latest_dict_data = [name \in {header_row[p] : p \in 1..Len(header_row)} |-> NoneV]
    /\ cpc = "off" /\ ci = 0 /\ cdata = <<>> /\ timestamp = 0
    /\ drained = NoDrained
    /\ produced = {} /\ rows = {} /\ sink = <<>> /\ snap = NoSnap

\* dequeue_data(queue, t)
DequeueData(t) ==
    /\ scenario = "deq" /\ UNCHANGED <<busVars, drvVars, runVars>>
    /\ LET r == dequeue_data(queues[1], t)
       IN  /\ queues' = <<r.rest>>
           /\ drained' = [i |-> 1, taken |-> r.taken, t |-> t,
                          ret |-> [none |-> r.none, v |-> r.v]]
    /\ UNCHANGED <<scenario, headers, save, now, wpc, wts, nsamples,
                   latest_queue_data, latest_array_data, latest_dict_data,
                   cpc, ci, cdata, timestamp, produced, rows, sink, snap>>

NextDequeue == \E t \in 1..(MaxLen + 1) : DequeueData(t)

SpecDequeue == InitDequeue /\ [][NextDequeue]_vars

-----------------------------------------------------------------------------
(* devices/TCM.py: threads using one TCM instance *)

Worker == "rd"
Writers == {"w1", "w2"}
Threads == {Worker} \cup Writers

NoCall == [op |-> "none"]
NoLoopVar == [attr |-> "", addr |-> 0]
NoLast == [t |-> "", call |-> NoCall, readout |-> <<>>, ret |-> [kind |-> "none"]]

\* key lists a caller of write_data passes: the configured write keys, or
\* the first of them
KeyChoices == {cfg_write_keys, <<K_TEMP3>>}
WriteVal == "15"

\* set(keys).issubset(set(self.write_keys))
issubset_write_keys(keys) ==
    \A i \in 1..Len(keys) : \E j \in 1..Len(write_keys) : write_keys[j] = keys[i]

\* self.write_keys.index(k)
WriteKeyIndex(k) ==
    CHOOSE j \in 1..Len(write_keys) :
        write_keys[j] = k /\ \A i \in 1..(j-1) : write_keys[i] # k

\* a write operation without the decorator: the call goes through
requires_write_mode_missing == TRUE

\* the wrapper of requires_write_mode calls the function (it raises
\* RuntimeError otherwise)
requires_write_mode == write_mode

\* attribute and address of a slot label, as a caller passes them
SlotAttr(k) == Split(k, "@")[1][1]
SlotAddr(k) == NumVal[Split(k, "@")[2][1]]

\* no request of the cycle in progress has reached the device
NoCycle == [pend |-> 0, ans |-> 0]

\* a lock that lets every thread in
CanAcquire_nolock == TRUE

\* `with self.lock:` may enter
CanAcquire == lock = "free"

InitBus ==
    /\ scenario = "bus" /\ CollOff /\ DrvOff /\ RunOff
    /\ write_mode \in BOOLEAN
    /\ tmp_write_keys = write_keys
    /\ lock = "free"
    /\ pc = [t \in Threads |-> "idle"]
    /\ call = [t \in Threads |-> NoCall]
    /\ idx = [t \in Threads |-> 0]
    /\ loopvar = [t \in Threads |-> NoLoopVar]
    /\ ncalls = 0
    /\ ser_out = <<>>
    /\ cycle = NoCycle
    /\ ser_in = <<>>
    /\ open = {}
    /\ last = NoLast

\* a call ends: its locals are gone, its caller has the outcome
Finish(t, c, rd, r) ==
    /\ last' = [t |-> t, call |-> c, readout |-> rd, ret |-> r]
    /\ call' = [call EXCEPT ![t] = NoCall]
    /\ idx' = [idx EXCEPT ![t] = 0]
    /\ loopvar' = [loopvar EXCEPT ![t] = NoLoopVar]

\* read_device_data calls device.read_data()
ReadDataCall(t) ==
    /\ scenario = "bus" /\ UNCHANGED <<collVars, drvVars, runVars>> /\ t = Worker
    /\ pc[t] = "idle" /\ ncalls < MaxCalls
    /\ pc' = [pc EXCEPT ![t] = "acquire"]
    /\ call' = [call EXCEPT ![t] = [op |-> "read_data"]]
    /\ ncalls' = ncalls + 1
    /\ UNCHANGED <<scenario, write_mode, tmp_write_keys, lock, idx, loopvar,
                   ser_out, cycle, ser_in, open>>
    /\ last' = NoLast

\* the arguments write_data passes to write_cmds for `keys`, and the key list
\* it leaves in tmp_write_keys
WriteDataArgs(keys) ==
    LET vals == [i \in 1..Len(keys) |-> WriteVal]
        tmp_write_attrs == [i \in 1..Len(tmp_write_keys) |->
                               attrs_lst[headermap(tmp_write_keys[i])]]
        tmp_write_devices == [i \in 1..Len(tmp_write_keys) |->
                                 devices_lst[headermap(tmp_write_keys[i])]]
    IN  IF keys = write_keys
        THEN [attributes |-> write_attributes, addresses |-> write_devices,
              vals |-> vals, tmp |-> tmp_write_keys]
        ELSE IF keys = tmp_write_keys
        THEN [attributes |-> tmp_write_attrs, addresses |-> tmp_write_devices,
              vals |-> vals, tmp |-> tmp_write_keys]
        ELSE [attributes |-> [i \in 1..Len(keys) |->
                                 write_attributes[WriteKeyIndex(keys[i])]],
              addresses |-> [i \in 1..Len(keys) |->
                                write_devices[WriteKeyIndex(keys[i])]],
              vals |-> vals, tmp |-> keys]

\* write_data(data, keys) up to `with self.lock` of write_cmds; without write
\* mode the decorator raises
WriteDataCall(t, keys) ==
    /\ scenario = "bus" /\ UNCHANGED <<collVars, drvVars, runVars>> /\ t \in Writers
    /\ pc[t] = "idle" /\ ncalls < MaxCalls
    /\ ncalls' = ncalls + 1
    /\ IF ~requires_write_mode
       THEN /\ Finish(t, [op |-> "write_data"], <<>>,
                      [kind |-> "raise", exc |-> "RuntimeError"])
            /\ UNCHANGED <<pc, tmp_write_keys>>
       ELSE IF keys # write_keys /\ keys # tmp_write_keys /\ ~issubset_write_keys(keys)
       THEN /\ Finish(t, [op |-> "write_data"], <<>>,
                      [kind |-> "raise", exc |-> "ValueError"])
            /\ UNCHANGED <<pc, tmp_write_keys>>
       ELSE LET a == WriteDataArgs(keys)
            IN  /\ call' = [call EXCEPT ![t] =
                       [op |-> "write_cmds", attributes |-> a.attributes,
                        addresses |-> a.addresses, vals |-> a.vals]]
                /\ tmp_write_keys' = a.tmp
                /\ pc' = [pc EXCEPT ![t] = "acquire"]
                /\ UNCHANGED <<idx, loopvar>> /\ last' = NoLast
    /\ UNCHANGED <<scenario, write_mode, lock, ser_out, cycle, ser_in, open>>

\* write_cmd(attr, address, val) up to `with self.lock`
WriteCmdCall(t, k) ==
    /\ scenario = "bus" /\ UNCHANGED <<collVars, drvVars, runVars>> /\ t \in Writers
    /\ pc[t] = "idle" /\ ncalls < MaxCalls
    /\ ncalls' = ncalls + 1
    /\ IF ~requires_write_mode
       THEN /\ Finish(t, [op |-> "write_cmd"], <<>>,
                      [kind |-> "raise", exc |-> "RuntimeError"])
            /\ UNCHANGED pc
       ELSE /\ call' = [call EXCEPT ![t] =
                   [op |-> "write_cmd",
                    attributes |-> <<SlotAttr(cfg_write_keys[k])>>,
                    addresses |-> <<SlotAddr(cfg_write_keys[k])>>,
                    vals |-> <<WriteVal>>]]
            /\ pc' = [pc EXCEPT ![t] = "acquire"]
            /\ UNCHANGED <<idx, loopvar>> /\ last' = NoLast
    /\ UNCHANGED <<scenario, write_mode, tmp_write_keys, lock, ser_out, cycle, ser_in, open>>

\* write_cmds(attributes, addresses, vals) called directly, up to
\* `with self.lock`
WriteCmdsCall(t, keys) ==
    /\ scenario = "bus" /\ UNCHANGED <<collVars, drvVars, runVars>> /\ t \in Writers
    /\ pc[t] = "idle" /\ ncalls < MaxCalls
    /\ ncalls' = ncalls + 1
    /\ IF ~requires_write_mode
       THEN /\ Finish(t, [op |-> "write_cmds"], <<>>,
                      [kind |-> "raise", exc |-> "RuntimeError"])
            /\ UNCHANGED pc
       ELSE /\ call' = [call EXCEPT ![t] =
                   [op |-> "write_cmds",
                    attributes |-> [i \in 1..Len(keys) |-> SlotAttr(keys[i])],
                    addresses |-> [i \in 1..Len(keys) |-> SlotAddr(keys[i])],
                    vals |-> [i \in 1..Len(keys) |-> WriteVal]]]
            /\ pc' = [pc EXCEPT ![t] = "acquire"]
            /\ UNCHANGED <<idx, loopvar>> /\ last' = NoLast
    /\ UNCHANGED <<scenario, write_mode, tmp_write_keys, lock, ser_out, cycle, ser_in, open>>

\* `with self.lock:` of read_data, write_cmd and write_cmds
Acquire(t) ==
    /\ scenario = "bus" /\ UNCHANGED <<collVars, drvVars, runVars>>
    /\ pc[t] = "acquire"
    /\ CanAcquire
    /\ lock' = t
    /\ pc' = [pc EXCEPT ![t] = "req"]
    /\ cycle' = NoCycle
    /\ UNCHANGED <<scenario, write_mode, tmp_write_keys, call, idx, loopvar,
                   ncalls, ser_out, ser_in, open>>
    /\ last' = NoLast

\* ser.write(request) followed by time.sleep(cmd_gap): within the gap the
\* device answers, or it has not answered yet (the request stays pending, at
\* most MaxPending of them), or it never answers this request
Transmit(req) ==
    \/ \E line \in Responses(req) :
           /\ ser_in' = ser_in \o line
           /\ cycle' = [cycle EXCEPT !.ans = @ + 1]
           /\ UNCHANGED ser_out
    \/ /\ Len(ser_out) < MaxPending
       /\ ser_out' = Append(ser_out, req)
       /\ cycle' = [cycle EXCEPT !.pend = @ + 1]
       /\ UNCHANGED ser_in
    \/ UNCHANGED <<ser_in, ser_out, cycle>>

\* one iteration of the request loop of read_data: _read_cmd(attr, addr)
ReadCmd(t) ==
    /\ scenario = "bus" /\ UNCHANGED <<collVars, drvVars, runVars>>
    /\ pc[t] = "req" /\ call[t].op = "read_data"
    /\ idx[t] < header_size
    /\ Transmit(ReadRequest(attrs_lst[idx[t] + 1], devices_lst[idx[t] + 1]))
    /\ idx' = [idx EXCEPT ![t] = @ + 1]
    /\ open' = open \cup {t}
    /\ UNCHANGED <<scenario, write_mode, tmp_write_keys, lock, pc, call, loopvar,
                   ncalls>>
    /\ last' = NoLast

\* one iteration of the request loop of write_cmds, or the one request of
\* write_cmd: _write_cmd(attr, addr, val)
WriteCmd(t) ==
    /\ scenario = "bus" /\ UNCHANGED <<collVars, drvVars, runVars>>
    /\ pc[t] = "req" /\ call[t].op \in {"write_cmds", "write_cmd"}
    /\ idx[t] < Len(call[t].attributes)
    /\ LET i == idx[t] + 1
       IN  /\ Transmit(WriteRequest(call[t].attributes[i], call[t].addresses[i],
                                    call[t].vals[i]))
           /\ loopvar' = [loopvar EXCEPT ![t] =
                   [attr |-> call[t].attributes[i], addr |-> call[t].addresses[i]]]
    /\ idx' = [idx EXCEPT ![t] = @ + 1]
    /\ open' = open \cup {t}
    /\ UNCHANGED <<scenario, write_mode, tmp_write_keys, lock, pc, call, ncalls>>
    /\ last' = NoLast

\* the device answers a pending request after the gap of its command
DeviceAnswer ==
    /\ scenario = "bus" /\ UNCHANGED <<collVars, drvVars, runVars>>
    /\ ser_out # <<>>
    /\ \E line \in Responses(Head(ser_out)) : ser_in' = ser_in \o line
    /\ ser_out' = Tail(ser_out)
    /\ cycle' = IF Len(ser_out) <= cycle.pend
                THEN [pend |-> cycle.pend - 1, ans |-> cycle.ans + 1]
                ELSE cycle
    /\ UNCHANGED <<scenario, write_mode, tmp_write_keys, lock, pc, call, idx,
                   loopvar, ncalls, open>>
    /\ last' = NoLast

\* read_data with acquire() and release() around the block in place of
\* `with`: an exception of the parse leaves the lock held
ReadDrain_keeps_lock(t) ==
    /\ scenario = "bus" /\ UNCHANGED <<collVars, drvVars, runVars>>
    /\ pc[t] = "req" /\ call[t].op = "read_data"
    /\ idx[t] = header_size
    /\ LET res == ReadDataResult(ser_in)
       IN  /\ Finish(t, call[t], ser_in, res)
           /\ pc' = [pc EXCEPT ![t] = CASE res.kind = "None" -> "idle"
                                        [] res.kind = "list" -> "sleep"
                                        [] OTHER -> "dead"]
    /\ ser_in' = <<>>
    /\ lock' = IF ReadDataResult(ser_in).kind = "raise" THEN lock ELSE "free"
    /\ open' = open \ {t}
    /\ cycle' = [cycle EXCEPT !.pend = 0]
    /\ UNCHANGED <<scenario, write_mode, tmp_write_keys, ncalls, ser_out>>

\* the rest of read_data inside the lock: read what is waiting, count the
\* lines, parse them; the lock is released on leaving the with block.  None
\* is returned at once, a sample after the pacing sleep, an exception of the
\* parse ends the worker thread
ReadDrain(t) ==
    /\ scenario = "bus" /\ UNCHANGED <<collVars, drvVars, runVars>>
    /\ pc[t] = "req" /\ call[t].op = "read_data"
    /\ idx[t] = header_size
    /\ LET res == ReadDataResult(ser_in)
       IN  /\ Finish(t, call[t], ser_in, res)
           /\ pc' = [pc EXCEPT ![t] = CASE res.kind = "None" -> "idle"
                                        [] res.kind = "list" -> "sleep"
                                        [] OTHER -> "dead"]
    /\ ser_in' = <<>>
    /\ lock' = "free"
    /\ open' = open \ {t}
    /\ cycle' = [cycle EXCEPT !.pend = 0]
    /\ UNCHANGED <<scenario, write_mode, tmp_write_keys, ncalls, ser_out>>

\* time.sleep(max(0, sampling_time - elapsed)) of read_data, then its return
\* to the loop of read_device_data
ReadSleep(t) ==
    /\ scenario = "bus" /\ UNCHANGED <<collVars, drvVars, runVars>>
    /\ pc[t] = "sleep"
    /\ pc' = [pc EXCEPT ![t] = "idle"]
    /\ UNCHANGED <<scenario, write_mode, tmp_write_keys, lock, call, idx, loopvar,
                   ncalls, ser_out, cycle, ser_in, open>>
    /\ last' = NoLast

\* the rest of write_cmds inside the lock
WriteCmdsDrain(t) ==
    /\ scenario = "bus" /\ UNCHANGED <<collVars, drvVars, runVars>>
    /\ pc[t] = "req" /\ call[t].op = "write_cmds"
    /\ idx[t] = Len(call[t].attributes)
    /\ Finish(t, call[t], ser_in, WriteCmdsResult(ser_in, loopvar[t]))
    /\ ser_in' = <<>>
    /\ lock' = "free"
    /\ open' = open \ {t}
    /\ pc' = [pc EXCEPT ![t] = "idle"]
    /\ cycle' = [cycle EXCEPT !.pend = 0]
    /\ UNCHANGED <<scenario, write_mode, tmp_write_keys, ncalls, ser_out>>

\* the rest of write_cmd inside the lock
WriteCmdDrain(t) ==
    /\ scenario = "bus" /\ UNCHANGED <<collVars, drvVars, runVars>>
    /\ pc[t] = "req" /\ call[t].op = "write_cmd"
    /\ idx[t] = 1
    /\ Finish(t, call[t], ser_in,
              WriteCmdResult(ser_in, call[t].attributes[1], call[t].addresses[1]))
    /\ ser_in' = <<>>
    /\ lock' = "free"
    /\ open' = open \ {t}
    /\ pc' = [pc EXCEPT ![t] = "idle"]
    /\ cycle' = [cycle EXCEPT !.pend = 0]
    /\ UNCHANGED <<scenario, write_mode, tmp_write_keys, ncalls, ser_out>>

NextBus ==
    \/ \E t \in Threads : ReadDataCall(t)
    \/ \E t \in Threads, keys \in KeyChoices : WriteDataCall(t, keys)
    \/ \E t \in Threads : WriteCmdCall(t, 1)
    \/ \E t \in Threads, keys \in KeyChoices : WriteCmdsCall(t, keys)
    \/ \E t \in Threads : Acquire(t)
    \/ \E t \in Threads : ReadCmd(t)
    \/ \E t \in Threads : WriteCmd(t)
    \/ DeviceAnswer
    \/ \E t \in Threads : ReadDrain(t)
    \/ \E t \in Threads : ReadSleep(t)
    \/ \E t \in Threads : WriteCmdsDrain(t)
    \/ \E t \in Threads : WriteCmdDrain(t)

SpecBus == InitBus /\ [][NextBus]_vars

-----------------------------------------------------------------------------
(* devices/FluxDAQ.py, devices/SMTC.py: the drivers' read_data *)

LF == "\n"

\* the `sensors` dict of a configuration, in insertion order: for each key
\* the sensor id and its flag 'q'
RECURSIVE Orders(_)
Orders(S) ==
    IF S = {} THEN {<<>>}
    ELSE UNION {{<<x>> \o o : o \in Orders(S \ {x})} : x \in S}

SensorDicts ==
    UNION {UNION {{[k \in 1..Len(o) |-> [id |-> o[k], q |-> f[o[k]]]] :
                        f \in [S -> BOOLEAN]} : o \in Orders(S)} :
              S \in (SUBSET (1..MaxSensorId)) \ {{}}}

KeyIds(sensors) == {sensors[k].id : k \in DOMAIN sensors}
SensorOf(sensors, id) == sensors[CHOOSE k \in DOMAIN sensors : sensors[k].id = id]

\* sorted([int(id) for id in sensors.keys()])
sensor_ids(sensors) == SortedSeq(KeyIds(sensors))

\* FluxDAQ.__init__: report_num_sensors = sensor_ids[-1]
report_num_sensors(sensors) == sensor_ids(sensors)[Len(sensor_ids(sensors))]

\* FluxDAQ.__init__, the loop over range(1, report_num_sensors + 1) from id
\* on: the header
RECURSIVE FluxDAQ_header_from(_, _)
FluxDAQ_header_from(sensors, id) ==
    IF id > report_num_sensors(sensors) THEN <<>>
    ELSE (IF id \in KeyIds(sensors)
          THEN (IF SensorOf(sensors, id).q THEN << <<"q", id>> >> ELSE <<>>)
               \o << <<"T", id>> >>
          ELSE <<>>)
         \o FluxDAQ_header_from(sensors, id + 1)

FluxDAQ_header(sensors) == FluxDAQ_header_from(sensors, 1)

\* FluxDAQ.__init__: active_ports, port 2*(id-1) for q and 2*(id-1)+1 for T
\* (counted from 0)
active_ports(sensors) ==
    [p \in 1..(2 * report_num_sensors(sensors)) |->
        LET id == (p + 1) \div 2
        IN  /\ id \in KeyIds(sensors)
            /\ (p % 2 = 1 => SensorOf(sensors, id).q)]

\* str.strip() of the whitespace float() ignores, str.rstrip('\n')
RECURSIVE RStrip(_)
RStrip(s) == IF s # <<>> /\ s[Len(s)] = LF THEN RStrip(DropLast(s, 1)) ELSE s
RECURSIVE LStrip(_)
LStrip(s) == IF s # <<>> /\ Head(s) = LF THEN LStrip(Tail(s)) ELSE s

\* float(val) within try / except ValueError: nan
FloatOrNaN(val) ==
    LET v == LStrip(RStrip(val))
    IN  IF CanFloat(v) THEN Num(Float(v)) ELSE NaN

\* FluxDAQ.read_data, the loop over the fields from field i on
RECURSIVE FluxDAQ_output_data(_, _, _)
FluxDAQ_output_data(sensors, fields, i) ==
    IF i > Len(fields) THEN <<>>
    ELSE (IF i > Len(active_ports(sensors)) THEN <<[k |-> "IndexError"]>>
          ELSE IF active_ports(sensors)[i] THEN <<FloatOrNaN(fields[i])>>
          ELSE <<>>)
         \o FluxDAQ_output_data(sensors, fields, i + 1)

\* FluxDAQ.read_data on the line readline() returned
FluxDAQ_read_data(sensors, output_str) ==
    LET fields == Split(output_str, ",")
    IN  IF Len(fields) # report_num_sensors(sensors) * 2
        THEN [kind |-> "None"]
        ELSE [kind |-> "list", v |-> FluxDAQ_output_data(sensors, fields, 1)]

\* TCHAT.__init__: the header, in the order of the dict
TCHAT_header(sensors) ==
    [k \in 1..Len(sensors) |->
        IF sensors[k].q THEN <<"q", sensors[k].id, "@TCHAT">>
        ELSE <<"T", sensors[k].id, "@TCHAT">>]

\* the 's_value' of the configured heat flux sensors
s_value == 500

\* TCHAT.__init__: sensors2read[k]
sensors2read(sensors, id) ==
    IF SensorOf(sensors, id).q
    THEN [cmd |-> "readmv", coeff |-> 1000 \div s_value]
    ELSE [cmd |-> "read", coeff |-> 1]

\* TCHAT.read_data on the outputs of the smtc commands, one per channel of
\* sensor_ids
TCHAT_read_data(sensors, outs) ==
    LET ids == sensor_ids(sensors)
        output(k) == RStrip(outs[k])
    IN  IF \E k \in 1..Len(ids) : ~CanFloat(LStrip(output(k)))
        THEN [kind |-> "raise", exc |-> "ValueError"]
        ELSE [kind |-> "list",
              v |-> [k \in 1..Len(ids) |->
                        Num(Float(LStrip(output(k))) * sensors2read(sensors, ids[k]).coeff)]]

\* what the DAQ may send as one line: fields joined by commas
RECURSIVE Join(_)
Join(fs) == IF Len(fs) = 1 THEN fs[1] ELSE fs[1] \o <<",">> \o Join(Tail(fs))

FluxFields == { <<"20">>, <<"x">> }

FluxLines(sensors) ==
    {<<>>} \cup
    UNION {{Join(fs) \o <<LF>> : fs \in [1..n -> FluxFields]} :
              n \in 1..(2 * report_num_sensors(sensors) + 1)}

\* what one smtc command may print
SmtcOutputs == { <<"20", LF>>, <<"22", LF>>, <<LF>> }

\* a FluxDAQ or a TCHAT instance, and what the device is about to answer:
\* the line on the serial link, or the outputs of the smtc commands
InitDrv ==
    /\ scenario = "drv" /\ BusOff /\ CollOff /\ RunOff
    /\ dev \in [class : {"FluxDAQ", "TCHAT"}, sensors : SensorDicts]
    /\ \E out \in (IF dev.class = "FluxDAQ" THEN FluxLines(dev.sensors)
                   ELSE [1..Len(dev.sensors) -> SmtcOutputs]) :
          dlast = [op |-> "none", out |-> out, ret |-> [kind |-> "none"]]

\* FluxDAQ.read_data
FluxReadData ==
    /\ scenario = "drv" /\ dev.class = "FluxDAQ" /\ dlast.op = "none"
    /\ dlast' = [op |-> "FluxDAQ.read_data", out |-> dlast.out,
                 ret |-> FluxDAQ_read_data(dev.sensors, dlast.out)]
    /\ UNCHANGED <<scenario, busVars, collVars, dev, runVars>>

\* TCHAT.read_data
TchatReadData ==
    /\ scenario = "drv" /\ dev.class = "TCHAT" /\ dlast.op = "none"
    /\ dlast' = [op |-> "TCHAT.read_data", out |-> dlast.out,
                 ret |-> TCHAT_read_data(dev.sensors, dlast.out)]
    /\ UNCHANGED <<scenario, busVars, collVars, dev, runVars>>

NextDrv ==
    \/ FluxReadData
    \/ TchatReadData

\* the three drivers: the TCM bus, and a FluxDAQ or TCHAT instance
InitDrivers == InitBus \/ InitDrv
NextDrivers == NextBus \/ NextDrv
SpecDrivers == InitDrivers /\ [][NextDrivers]_vars

-----------------------------------------------------------------------------
(* devices/TCM.py: TCM.__init__ applied to one configuration *)

K_PID5 == <<"PID", "@", "5">>
K_NOAT == <<"TEMP">>

\* the keys a configuration may list, one of them without '@'
ConfigKeys == {K_TEMP3, K_ADJ4, K_PID5, K_NOAT}

KeyLists == UNION {[1..n -> ConfigKeys] : n \in 0..MaxKeys}

\* the fixed margin of read_time_buffer, cmd_gap and sampling_time in
\* milliseconds
margin == 5
CmdGaps == {0, 75}
SamplingTimes == {5, 80, 200, 230, 231}

HasAt(k) == \E i \in 1..Len(k) : k[i] = "@"

\* TCM.__init__(read_keys, write, write_keys, cmd_gap, sampling_time) with
\* a device that answers the precheck (connected) or not: the instance's
\* header and timing, or the exception raised
TCM_init(cfg) ==
    LET rk == cfg.read_keys
        wk == IF cfg.write THEN cfg.write_keys ELSE <<>>
        ks == rk \o wk
        hdr == Dedup(ks, <<>>)
        size == Len(hdr)
        read_time_buffer == cfg.cmd_gap * size + margin
    IN  IF cfg.write /\ Len(cfg.write_keys) = 0
        THEN [kind |-> "raise", exc |-> "ValueError", at |-> "write keys"]
        ELSE IF \E i \in 1..Len(ks) : ~HasAt(ks[i])
        THEN [kind |-> "raise", exc |-> "ValueError", at |-> "key"]
        ELSE IF \E i \in 1..size : Len(Split(hdr[i], "@")) # 2
        THEN [kind |-> "raise", exc |-> "ValueError", at |-> "key format"]
        ELSE IF size > 0 /\ ~cfg.connected
        THEN [kind |-> "raise", exc |-> "ValueError", at |-> "precheck"]
        ELSE IF cfg.sampling_time < read_time_buffer
        THEN [kind |-> "raise", exc |-> "ValueError", at |-> "sampling time"]
        ELSE [kind |-> "ok", header |-> hdr, header_size |-> size,
              rest_time |-> cfg.sampling_time - read_time_buffer]

InitTCMInit ==
    /\ scenario = "init" /\ BusOff /\ CollOff /\ RunOff
    /\ dev \in [class : {"TCM"}, read_keys : KeyLists, write : BOOLEAN,
                write_keys : KeyLists, cmd_gap : CmdGaps,
                sampling_time : SamplingTimes, connected : BOOLEAN]
    /\ dlast = NoRead

\* TCM(**config)
Construct ==
    /\ scenario = "init" /\ dlast.op = "none"
    /\ dlast' = [op |-> "TCM.__init__", out |-> <<>>, ret |-> TCM_init(dev)]
    /\ UNCHANGED <<scenario, busVars, collVars, dev, runVars>>

NextTCMInit == Construct

SpecTCMInit == InitTCMInit /\ [][NextTCMInit]_vars

-----------------------------------------------------------------------------
(* main.py: the collection loop of run() *)

\* the devices of the run, one worker thread and one queue each
RunDevices == 1..2

\* all([thread.is_alive() for thread in threads]) with the test left out
all_alive_unchecked == TRUE

\* all([thread.is_alive() for thread in threads])
all_alive == \A i \in RunDevices : alive[i]

\* run() after thread.start() and the start-up sleep: DataCollector has
\* opened its csv file when save is set, the row of latest values is all
\* None, the main thread is at the test of the while loop
InitRun ==
    /\ scenario = "run" /\ BusOff /\ CollOff /\ DrvOff
    /\ rpc = "check"
    /\ alive = [i \in RunDevices |-> TRUE]
    /\ queued = [i \in RunDevices |-> FALSE]
    /\ merged = [i \in RunDevices |-> FALSE]
    /\ writer \in {"none", "open"}
    /\ ended = "no"

RunFrame == scenario = "run" /\ UNCHANGED <<scenario, busVars, collVars, drvVars>>

\* read_device_data of worker i: read_data returned a sample, enqueue_data
WorkerPut(i) ==
    /\ RunFrame /\ rpc # "terminated"
    /\ alive[i] /\ ~queued[i]
    /\ queued' = [queued EXCEPT ![i] = TRUE]
    /\ UNCHANGED <<rpc, alive, merged, writer, ended>>

\* read_device_data of worker i: read_data raised, the thread has ended
WorkerDies(i) ==
    /\ RunFrame /\ rpc # "terminated"
    /\ alive[i]
    /\ alive' = [alive EXCEPT ![i] = FALSE]
    /\ UNCHANGED <<rpc, queued, merged, writer, ended>>

\* the test of the while loop fails: collection_duration has passed
DurationOver ==
    /\ RunFrame /\ rpc = "check"
    /\ rpc' = "stopped" /\ ended' = "duration"
    /\ UNCHANGED <<alive, queued, merged, writer>>

\* the liveness check at the top of the loop body: join and break when a
\* thread is not alive
LoopCheck ==
    /\ RunFrame /\ rpc = "check"
    /\ IF all_alive
       THEN rpc' = "collect" /\ UNCHANGED ended
       ELSE rpc' = "stopped" /\ ended' = "dead"
    /\ UNCHANGED <<alive, queued, merged, writer>>

\* collector.collect_data(timestamp + writing_time): wait for the boundary,
\* take what each queue holds, merge it into the latest values, save_data
\* (writerow and flush) when a writer is open
Collect ==
    /\ RunFrame /\ rpc = "collect"
    /\ merged' = [i \in RunDevices |-> merged[i] \/ queued[i]]
    /\ queued' = [i \in RunDevices |-> FALSE]
    /\ rpc' = "print"
    /\ UNCHANGED <<alive, writer, ended>>

\* get_latest_dict_data() and print([f"{value:.2f}" ...]): a value None
\* raises TypeError, caught by `except Exception`: join and break
PrintLatest ==
    /\ RunFrame /\ rpc = "print"
    /\ IF \A i \in RunDevices : merged[i]
       THEN rpc' = "advance" /\ UNCHANGED ended
       ELSE rpc' = "stopped" /\ ended' = "Exception"
    /\ UNCHANGED <<alive, queued, merged, writer>>

\* timestamp = timestamp + writing_time, back to the test of the loop
Advance ==
    /\ RunFrame /\ rpc = "advance"
    /\ rpc' = "check"
    /\ UNCHANGED <<alive, queued, merged, writer, ended>>

\* Ctrl-C: inside the try block it is caught (join and break); outside it
\* KeyboardInterrupt leaves run() and passes `except Exception` of __main__
Interrupt ==
    /\ RunFrame /\ rpc \in {"check", "collect", "print", "advance"}
    /\ ended' = "KeyboardInterrupt"
    /\ rpc' = IF rpc \in {"collect", "print"} THEN "stopped" ELSE "terminated"
    /\ UNCHANGED <<alive, queued, merged, writer>>

\* print("Data collection stopped."), run() returns, the finally clause of
\* __main__ prints, the process ends (the workers are daemon threads)
Return ==
    /\ RunFrame /\ rpc = "stopped"
    /\ rpc' = "terminated"
    /\ UNCHANGED <<alive, queued, merged, writer, ended>>

NextRun ==
    \/ \E i \in RunDevices : WorkerPut(i)
    \/ \E i \in RunDevices : WorkerDies(i)
    \/ DurationOver
    \/ LoopCheck
    \/ Collect
    \/ PrintLatest
    \/ Advance
    \/ Interrupt
    \/ Return

SpecRun == InitRun /\ [][NextRun]_vars

\* the main thread keeps running: each of its steps ends (wait_until_time
\* waits for a boundary one writing_time ahead, the queues are read without
\* blocking, join has a timeout)
SpecRunLive ==
    /\ SpecRun
    /\ WF_vars(LoopCheck) /\ WF_vars(Collect) /\ WF_vars(PrintLatest)
    /\ WF_vars(Advance) /\ WF_vars(Return)

-----------------------------------------------------------------------------
(* Properties of the TCM bus *)

\* a thread is inside a cycle: between `with self.lock` and the end of the block
InCycle(t) == pc[t] = "req"

\* a response line (without its "\r") that carries error code `code`
CarriesCode(line, code) ==
    /\ Len(line) = 6
    /\ line[1] = "CMD:" /\ line[3] = "=" /\ line[4] = code /\ line[5] = "@"

Executed(line) == CarriesCode(line, "1") \/ CarriesCode(line, "8")

\* line answers a write to slot (attr, addr)
AnswersSlot(line, attr, addr) ==
    /\ Len(line) = 6
    /\ line[1] = "CMD:" /\ line[2] = attr /\ line[6] = AddrTok(addr)

\* C1: read cycles and write cycles on one TCM instance are mutually
\* exclusive for their whole duration: while a cycle is open (it has sent a
\* request line and has not yet read the responses) no other thread is inside
\* a cycle, so none sends a request line or reads the response buffer, and
\* the thread of the open cycle holds the lock.
C1_MutualExclusion ==
    scenario = "bus" =>
        /\ Cardinality(open) <= 1
        /\ \A t \in open : lock = t /\ \A u \in Threads \ {t} : ~InCycle(u)
        /\ \A t \in Threads : InCycle(t) => lock = t

\* a writer has its cycle open while the acquisition worker waits for the lock
C1_Witness ==
    /\ scenario = "bus"
    /\ \E w \in Writers : w \in open /\ idx[w] >= 1 /\ pc[Worker] = "acquire"

\* C5: write_cmds (called directly or through write_data, on an instance in
\* write mode) returns normally when every response line read back carries
\* code 1 or 8 and raises when some response line carries anything else.
C5_WriteBatchSuccessRule ==
    (scenario = "bus" /\ last.call.op = "write_cmds" /\ write_mode) =>
        LET ls == Lines(last.readout)
        IN  /\ (\A i \in 1..Len(ls) : Executed(ls[i])) => last.ret.kind = "ok"
            /\ (\E i \in 1..Len(ls) : ~Executed(ls[i])) => last.ret.kind = "raise"

\* the batch [("TEMP", 3)] with value 15 answered by CMD:TEMP=1@3 succeeds
C5_Witness ==
    /\ scenario = "bus" /\ write_mode
    /\ last.call.op = "write_cmds" /\ last.ret.kind = "ok"
    /\ last.call.attributes = <<"TEMP">> /\ last.call.addresses = <<3>>
    /\ last.call.vals = <<"15">>
    /\ last.readout = <<"CMD:", "TEMP", "=", "1", "@", "3", CR>>
    /\ last.ret.kind = "ok"

\* C6: write_cmd returns without error when the device answers with code 1 or
\* code 8, and raises only when the code is neither.
C6_WriteCmdSuccessRule ==
    (scenario = "bus" /\ last.call.op = "write_cmd" /\ write_mode) =>
        LET ls == Lines(last.readout)
        IN  (Len(ls) = 1 /\ Executed(ls[1])) => last.ret.kind = "ok"

\* C7: write_cmds over N slots returns normally only if N response lines were
\* read back, one per written slot, each with code 1 or 8.
C7_NoSilentFailure ==
    (scenario = "bus" /\ last.call.op = "write_cmds" /\ last.ret.kind = "ok") =>
        LET ls == Lines(last.readout)
        IN  /\ Len(ls) = Len(last.call.attributes)
            /\ \A i \in 1..Len(ls) : Executed(ls[i])

\* C8: when a write batch fails, the error names the slot at the position of
\* the first response line whose code is neither 1 nor 8, with that code
\* (stated for a readout holding one answer per slot, in slot order).
C8_FirstOffendingSlot ==
    (/\ scenario = "bus" /\ last.call.op = "write_cmds"
     /\ last.ret.kind = "raise" /\ last.ret.exc = "AttributeError") =>
        LET ls == Lines(last.readout)
            c == last.call
        IN  (/\ Len(ls) = Len(c.attributes)
             /\ \A i \in 1..Len(ls) : AnswersSlot(ls[i], c.attributes[i], c.addresses[i]))
            => LET k == CHOOSE i \in 1..Len(ls) :
                            ~Executed(ls[i]) /\ \A j \in 1..(i-1) : Executed(ls[j])
               IN  /\ last.ret.slot = [attr |-> c.attributes[k], addr |-> c.addresses[k]]
                   /\ CarriesCode(ls[k], AddrTok(last.ret.code.v))

-----------------------------------------------------------------------------
(* Properties of the collector *)

\* the sum of the header lengths of the devices before device i
array_start_idx_cumulative ==
    [i \in 1..Len(headers) |-> Len(Flatten(SubSeq(headers, 1, i - 1)))]

\* the flat positions (counted from 1) of device D's channels in the row
\* that header_row names
ColumnsOf(D) == [j \in 1..Len(headers[D]) |-> array_start_idx_cumulative[D] + j]

\* C2: gap filling.  When a window is complete, every device that gave no
\* sample in it but did in an earlier window has, in each of its columns of
\* latest_array_data and of the row handed to the sink, its value of the
\* most recent window in which it gave one.
C2_GapFilling ==
    (scenario = "coll" /\ cpc = "done") =>
        \A D \in Devices :
            (D \notin produced /\ ~latest_queue_data[D].none) =>
                \A j \in 1..Len(headers[D]) :
                    /\ latest_array_data[ColumnsOf(D)[j]] = latest_queue_data[D].v[j]
                    /\ save => sink.row[ColumnsOf(D)[j]] = latest_queue_data[D].v[j]

\* C3: concatenation order.  Once collect_data has merged what device i
\* contributed, the value of its j-th channel stands at flat position
\* (sum of the header lengths of the devices before i) + j of
\* latest_array_data.
C3_ConcatenationOrder ==
    (scenario = "coll" /\ drained.i # 0 /\ ~drained.ret.none) =>
        \A j \in 1..Len(headers[drained.i]) :
            latest_array_data[ColumnsOf(drained.i)[j]] = drained.ret.v[j]

\* the non-nan values of channel j of the drained entries
NonNaN(taken, j) ==
    SelectSeq([e \in 1..Len(taken) |-> taken[e][j + 1]], LAMBDA x : x # NaN)

RECURSIVE IntSum(_)
IntSum(xs) == IF xs = <<>> THEN 0 ELSE Head(xs).n + IntSum(Tail(xs))

\* C4: averaging.  When dequeue_data drains one or more samples it returns
\* a contribution, and for each channel that contribution is the arithmetic
\* mean of the channel's non-NaN values over the drained samples, NaN when
\* the channel is NaN in all of them.
C4_AveragingLaw ==
    drained.i # 0 =>
        /\ drained.ret.none <=> drained.taken = <<>>
        /\ drained.taken # <<>> =>
              \A j \in 1..Len(headers[drained.i]) :
                  LET xs == NonNaN(drained.taken, j)
                      v == drained.ret.v[j]
                  IN  IF xs = <<>> THEN v = NaN
                      ELSE v # NaN /\ v.n * Len(xs) = v.d * IntSum(xs)

C4_Witness ==
    /\ scenario = "deq"
    /\ drained.taken = << <<1, Num(20)>>, <<2, NaN>>, <<3, Num(22)>> >>
    /\ drained.ret = [none |-> FALSE, v |-> <<Num(21)>>]

\* the devices whose contribution for the window in progress stands in the
\* array (in the dict) already
MergedInto(kind) ==
    IF kind = "dict" /\ cpc = "dict" THEN produced \ {ci} ELSE produced

\* the devices whose samples for the window in progress are still to be
\* merged into the array (into the dict)
StillToMerge(kind) ==
    {D \in Devices :
        \/ /\ cpc = "dict" /\ D = ci /\ kind = "dict"
        \/ /\ \/ cpc = "dict" /\ D > ci
              \/ cpc = "drain" /\ D >= ci
           /\ TakeCount(queues[D], timestamp) > 0}

\* C9: snapshots.  Every value get_latest_data or get_latest_dict_data
\* returns is the merged row as it stood at the end of some completed
\* window, or the initial row: it never holds the contribution of one device
\* for the window in progress next to the earlier value of a device whose
\* samples for that window are still to be merged.
C9_SnapshotOfCompletedWindow ==
    (scenario = "coll" /\ snap.k # "none") =>
        \/ \E r \in rows : snap.v = (IF snap.k = "array" THEN r.a ELSE r.d)
        \/ MergedInto(snap.k) = {}
        \/ StillToMerge(snap.k) = {}

-----------------------------------------------------------------------------
(* Properties of the drivers *)

\* C10: arity.  Whenever read_data of a TCM, a FluxDAQ or a TCHAT returns a
\* sample, the sample has as many values as the device's header has labels;
\* a TCM readout with a number of lines other than the number of slots, and
\* a FluxDAQ line with a number of fields other than two per reported
\* sensor, give None.
C10_Arity ==
    /\ (scenario = "bus" /\ last.call.op = "read_data") =>
          /\ last.ret.kind = "list" => Len(last.ret.v) = Len(header)
          /\ Len(Lines(last.readout)) # Len(header) => last.ret.kind = "None"
    /\ (scenario = "drv" /\ dlast.op = "FluxDAQ.read_data") =>
          /\ dlast.ret.kind = "list" =>
                Len(dlast.ret.v) = Len(FluxDAQ_header(dev.sensors))
          /\ Len(Split(dlast.out, ",")) # 2 * report_num_sensors(dev.sensors) =>
                dlast.ret.kind = "None"
    /\ (scenario = "drv" /\ dlast.op = "TCHAT.read_data") =>
          (dlast.ret.kind = "list" =>
                Len(dlast.ret.v) = Len(TCHAT_header(dev.sensors)))

C10_Witness ==
    /\ scenario = "drv" /\ dlast.op = "FluxDAQ.read_data"
    /\ Len(FluxDAQ_header(dev.sensors)) = 3
    /\ dlast.ret.kind = "list" /\ Len(dlast.ret.v) = 3
    /\ \E i \in 1..3 : dlast.ret.v[i] = NaN

-----------------------------------------------------------------------------
(* Properties of the merged row and of the sink *)

RECURSIVE SumLen(_)
SumLen(hs) == IF hs = <<>> THEN 0 ELSE Len(Head(hs)) + SumLen(Tail(hs))

\* C11: row length.  After any sequence of collect_data calls
\* latest_array_data has as many entries as the headers of all devices
\* together, and so has every row handed to the sink.
C11_RowLength ==
    scenario = "coll" =>
        /\ Len(latest_array_data) = SumLen(headers)
        /\ sink.n > 0 => Len(sink.row) = SumLen(headers)

\* two rows written for three devices, the third of which has given data
C11_Witness ==
    /\ scenario = "coll" /\ Len(headers) = 3
    /\ sink.n = 2 /\ ~latest_queue_data[3].none

-----------------------------------------------------------------------------
(* Properties of TCM construction *)

Constructed == scenario = "init" /\ dlast.op = "TCM.__init__" /\ dlast.ret.kind = "ok"

\* the configured slot labels: read keys followed by write keys
SlotLabels == dev.read_keys \o (IF dev.write THEN dev.write_keys ELSE <<>>)

\* C12: timing floor.  A TCM is constructed only if the sampling period is
\* strictly greater than cmd_gap times the number of slots plus the fixed
\* margin; a period equal to that floor is rejected.
C12_TimingFloor ==
    Constructed =>
        dev.sampling_time > dev.cmd_gap * Len(dlast.ret.header) + margin

\* C13: duplicate slots.  A TCM is constructed only if no slot label occurs
\* more than once among the read keys followed by the write keys.
C13_NoDuplicateSlots ==
    Constructed =>
        \A i, j \in 1..Len(SlotLabels) : SlotLabels[i] = SlotLabels[j] => i = j

-----------------------------------------------------------------------------
(* Properties of the write operations without write mode *)

\* C14: runtime misuse.  On a TCM whose write_mode is false a call of
\* write_data, write_cmds or write_cmd (each behind the decorator that also
\* guards _write_cmd) ends at once with RuntimeError: no writer ever waits
\* for or holds the lock or has a cycle open, no write request is on the
\* link, and tmp_write_keys stays as constructed.
C14_RuntimeMisuse ==
    (scenario = "bus" /\ ~write_mode) =>
        /\ last.call.op \in {"write_data", "write_cmds", "write_cmd"} =>
              last.ret = [kind |-> "raise", exc |-> "RuntimeError"]
        /\ \A w \in Writers : pc[w] = "idle" /\ lock # w /\ w \notin open
        /\ \A i \in 1..Len(ser_out) : IsReadRequest(ser_out[i])
        /\ tmp_write_keys = <<>>

\* write_cmds has raised RuntimeError for a writer while the worker is
\* inside a read cycle
C14_Witness ==
    /\ scenario = "bus" /\ ~write_mode
    /\ last.call.op = "write_cmds" /\ last.ret.kind = "raise"
    /\ last.ret.exc = "RuntimeError" /\ last.t \in Writers
    /\ pc[Worker] = "req" /\ Worker \in open

-----------------------------------------------------------------------------
(* Properties of the read cycle *)

\* C15: protocol error recovery.  A read cycle that follows a truncated one
\* proceeds normally: when the device has answered all header_size requests
\* of a read cycle, read_data does not return None.  (Stated for an instance
\* without write mode, where read cycles are the only cycles on the link.)
C15_ProtocolErrorRecovery ==
    (/\ scenario = "bus" /\ ~write_mode
     /\ last.call.op = "read_data" /\ cycle.ans = header_size) =>
        last.ret.kind # "None"

\* a response line that is an error line
IsErrorLine(line) == Len(line) >= 1 /\ line[1] = "CMD:"

\* C16: for reads a device-reported error code degrades to no data: when a
\* response line of a read cycle is an error line, read_data returns None
\* (and so never a sample holding the error code as a channel value).
C16_ErrorLineIsNoData ==
    (/\ scenario = "bus" /\ last.call.op = "read_data"
     /\ \E i \in 1..Len(Lines(last.readout)) : IsErrorLine(Lines(last.readout)[i])) =>
        last.ret.kind = "None"

-----------------------------------------------------------------------------
(* Properties of the snapshot accessors *)

\* what DataCollector holds, apart from what a step hands to its caller
collectorState ==
    <<headers, save, queues, latest_queue_data, latest_array_data,
      latest_dict_data, cpc, ci, cdata, timestamp, rows, sink>>

\* C17: snapshot idempotence.  A call of get_latest_data or
\* get_latest_dict_data leaves the collector's state unchanged, and a call
\* that follows a call of the same accessor with nothing in between returns
\* an equal value.
C17_SnapshotIdempotence ==
    [][ /\ (scenario = "coll" /\ snap'.k # "none") => UNCHANGED collectorState
        /\ (scenario = "coll" /\ snap.k # "none" /\ snap'.k = snap.k) =>
               snap'.v = snap.v ]_vars

\* a reader has just been handed a row that holds merged data of device 1
\* and a gap for the last device
C17_Witness ==
    /\ scenario = "coll" /\ snap.k = "array"
    /\ snap.v[1] # NoneV /\ snap.v[Len(snap.v)] = NoneV
    /\ cpc = "drain"

\* C18: a worker never terminates on a single failed read.  Whatever the
\* device sends back in a read cycle (nothing, too few lines, a garbled value
\* field, an error line), the acquisition worker stays alive.  (The link of
\* the modelled instance is never closed.)
C18_WorkerSurvivesFailedRead ==
    scenario = "bus" => pc[Worker] # "dead"

-----------------------------------------------------------------------------
(* Properties of the run loop *)

SomeWorkerDead == scenario = "run" /\ \E i \in RunDevices : ~alive[i]

LoopLeft == rpc \in {"stopped", "terminated"}

\* C19: liveness check.  When a worker is dead at the check of the run loop,
\* the loop goes on to no further collect_data and is left; hence once a
\* worker has died the run eventually stops.
C19_LivenessCheck ==
    /\ [][ (SomeWorkerDead /\ rpc = "check" /\ rpc' # rpc) => LoopLeft' ]_vars
    /\ (SomeWorkerDead ~> LoopLeft)

\* the loop was left by the liveness check, after a window in which both
\* devices had delivered data
C19_Witness ==
    /\ scenario = "run" /\ rpc = "stopped" /\ ended = "dead"
    /\ \A i \in RunDevices : merged[i]
    /\ \E i \in RunDevices : ~alive[i]

-----------------------------------------------------------------------------
(* Properties of the thermocouple stack driver *)

\* what the smtc command for channel id printed in this read
ChannelOutput(id) ==
    LET ids == sensor_ids(dev.sensors)
    IN  dlast.out[CHOOSE k \in 1..Len(ids) : ids[k] = id]

\* C21: sample/header alignment of TCHAT.  The i-th value read_data returns
\* is the reading of the channel the i-th header label names, times that
\* channel's coefficient, whatever the order of the sensor ids in the
\* configuration.
C21_SampleHeaderAlignment ==
    (/\ scenario = "drv" /\ dev.class = "TCHAT"
     /\ dlast.op = "TCHAT.read_data" /\ dlast.ret.kind = "list") =>
        LET hd == TCHAT_header(dev.sensors)
        IN  /\ Len(dlast.ret.v) = Len(hd)
            /\ \A i \in 1..Len(hd) :
                   dlast.ret.v[i] =
                       Num(Float(LStrip(RStrip(ChannelOutput(hd[i][2]))))
                           * sensors2read(dev.sensors, hd[i][2]).coeff)

-----------------------------------------------------------------------------
(* Properties of the drain *)

\* C22: drain rule.  collect_data(t) drains a queue only when the clock has
\* reached t; the step removes a prefix of the queue (oldest first), every
\* removed entry has a timestamp < t, and every entry left has a timestamp
\* >= t and keeps its place.
C22_DrainRule ==
    [][ (scenario = "coll" /\ drained'.i # 0) =>
            LET i == drained'.i
                t == drained'.t
            IN  /\ t = timestamp /\ now >= t
                /\ queues[i] = drained'.taken \o queues'[i]
                /\ \A k \in 1..Len(drained'.taken) : drained'.taken[k][1] < t
                /\ \A k \in 1..Len(queues'[i]) : queues'[i][k][1] >= t ]_vars

\* a drain for boundary t has taken a sample and left one stamped t in the
\* queue
C22_Witness ==
    /\ scenario = "coll" /\ drained.i # 0
    /\ drained.taken # <<>>
    /\ queues[drained.i] # <<>> /\ queues[drained.i][1][1] = drained.t

\* C23: window membership.  What a device contributes to the window ending
\* at boundary t is computed only from samples stamped in
\* [t - writing_time, t).
C23_WindowMembership ==
    (scenario = "coll" /\ drained.i # 0) =>
        \A k \in 1..Len(drained.taken) :
            /\ drained.t - writing_time <= drained.taken[k][1]
            /\ drained.taken[k][1] < drained.t

\* C25: within the queue of one device the entries are in strictly
\* increasing timestamp order from head to tail, in every reachable state.
C25_QueueOrder ==
    scenario = "coll" =>
        \A i \in Devices : \A k \in 1..(Len(queues[i]) - 1) :
            queues[i][k][1] < queues[i][k + 1][1]

\* after a first window has been drained, a queue holds two entries again
C25_Witness ==
    /\ scenario = "coll" /\ timestamp > 1 + writing_time
    /\ \E i \in Devices : Len(queues[i]) >= 2

\* C26: last-valid cache.  Once latest_queue_data[i] holds a value no step
\* resets it to None; it changes only in a drain of device i that took at
\* least one sample and is left as it is by every other step.
C26_CacheMonotone ==
    [][ scenario = "coll" =>
            \A i \in Devices :
                /\ ~latest_queue_data[i].none => ~latest_queue_data'[i].none
                /\ latest_queue_data'[i] # latest_queue_data[i] =>
                       drained'.i = i /\ drained'.taken # <<>> ]_vars

\* a drain found no sample of a device whose value of an earlier window is
\* kept
C26_Witness ==
    /\ scenario = "coll" /\ drained.i # 0 /\ drained.ret.none
    /\ ~latest_queue_data[drained.i].none
    /\ timestamp > 1 + writing_time

\* the windows collect_data has completed
CompletedWindows ==
    (timestamp - 1) \div writing_time - (IF cpc = "done" THEN 0 ELSE 1)

\* C27: persistence cadence.  With persistence enabled the file starts with
\* the column header row, written once; every completed collect_data(t) has
\* appended one data row, keyed by its boundary t and equal to the merged
\* row of that window, and has flushed it; there are as many data rows as
\* completed windows.
C27_PersistenceCadence ==
    (scenario = "coll" /\ save) =>
        /\ sink.file[1] = [kind |-> "header", cols |-> <<"time">> \o header_row]
        /\ \A k \in 2..Len(sink.file) :
               /\ sink.file[k].kind = "data"
               /\ sink.file[k].t = 1 + (k - 1) * writing_time
        /\ Len(sink.file) - 1 = CompletedWindows
        /\ cpc = "done" =>
               /\ sink.file[Len(sink.file)] =
                      [kind |-> "data", t |-> timestamp, data |-> latest_array_data]
               /\ sink.flushed = Len(sink.file)

\* the second window is complete: the file holds the header and two rows
C27_Witness ==
    /\ scenario = "coll" /\ save /\ cpc = "done"
    /\ Len(sink.file) = 3 /\ sink.flushed = 3
    /\ \E p \in 1..Len(latest_array_data) : latest_array_data[p] # NoneV

\* the entries of a queue, as a set (their timestamps differ)
Entries(q) == {q[k] : k \in 1..Len(q)}

\* C28: exactly-once contribution.  An entry leaves the queue of its device
\* only in a drain step of that device; the entries that leave in the step
\* are the ones the step averages, each once, into the contribution that the
\* step stores for the window, and they are in the queue no more.
C28_ExactlyOnce ==
    [][ scenario = "coll" =>
            \A i \in Devices :
                LET gone == Entries(queues[i]) \ Entries(queues'[i])
                    taken == drained'.taken
                    v == drained'.ret.v
                IN  /\ drained'.i = i =>
                        /\ Entries(taken) = gone
                        /\ Cardinality(gone) = Len(taken)
                    /\ gone # {} =>
                        /\ drained'.i = i /\ ~drained'.ret.none
                        /\ latest_queue_data'[i] = [none |-> FALSE, v |-> v]
                        /\ \A j \in 1..Len(headers[i]) :
                               v[j].n * Len(taken) =
                                   v[j].d * IntSum([e \in 1..Len(taken) |-> taken[e][j + 1]])
      ]_vars

\* the drain of a later window has averaged two samples
C28_Witness ==
    /\ scenario = "coll" /\ drained.i # 0
    /\ Len(drained.taken) = 2
    /\ timestamp > 1 + writing_time

-----------------------------------------------------------------------------
(* Properties of the pacing and of the lock *)

\* C24: every read_data call paces itself, also one that yields no data:
\* when a read cycle has ended with a sample or with None, its thread is in
\* the pacing wait before it can start the next cycle.
C24_PacingOnEveryRead ==
    (/\ scenario = "bus" /\ last.call.op = "read_data"
     /\ last.ret.kind \in {"None", "list"}) =>
        pc[last.t] = "sleep"

\* C29: response provenance.  Every value of a sample read_data returns
\* comes from an answer to a request of the same cycle: when read_data
\* returns a sample, the device has answered all header_size requests of
\* that cycle (so no line of the readout is left over from an earlier cycle
\* or write batch).
C29_ResponseProvenance ==
    (/\ scenario = "bus" /\ last.call.op = "read_data"
     /\ last.ret.kind = "list") =>
        cycle.ans = header_size

\* C30: bus lock release.  The lock is held only by a thread inside a read
\* or write cycle: a thread that is idle, in its pacing wait, waiting for the
\* lock or dead does not hold it, the thread of a call that has just ended
\* (whatever its outcome) does not hold it, and with no cycle in progress
\* the lock is free for a waiting writer.
C30_LockRelease ==
    scenario = "bus" =>
        /\ \A t \in Threads : lock = t => pc[t] = "req"
        /\ last.t \in Threads => lock # last.t
        /\ (\A t \in Threads : pc[t] # "req") => lock = "free"

\* the worker has died on a parse failure and a writer holds the lock for
\* its own cycle
C30_Witness ==
    /\ scenario = "bus" /\ pc[Worker] = "dead"
    /\ \E w \in Writers : lock = w /\ pc[w] = "req"

====
